---- MODULE Spec2Model ----
(***************************************************************************)
(* loosejson: a lenient JSON parser (src/loosejson/loosejson.py).          *)
(*                                                                         *)
(* The model is a state machine over one call of                           *)
(* parse_loosely_defined_json(text).  A text is a sequence of one-character*)
(* strings.  The recursion of LooseJsonParser.get_object is an explicit    *)
(* stack of frames holding the locals of each activation; one step is one  *)
(* iteration of the while loop of the innermost activation, a call, the    *)
(* resumption of a caller after its callee returned, or a step of the      *)
(* top-level wrapper.                                                      *)
(***************************************************************************)
EXTENDS Integers, Sequences, FiniteSets, TLC

VARIABLES text, pos, line, col, stack, pc, ret, err, final, report

vars == <<text, pos, line, col, stack, pc, ret, err, final, report>>

-----------------------------------------------------------------------------
(* Characters *)

EOF == "EOF"

NL == "\n"

TAB == "\t"

CR == "\r"

FF == "\f"

BSL == "\\"

DQ == "\""

SQ == "'"

LowerLetters ==
    {"a","b","c","d","e","f","g","h","i","j","k","l","m",
     "n","o","p","q","r","s","t","u","v","w","x","y","z"}

UpperLetters ==
    {"A","B","C","D","E","F","G","H","I","J","K","L","M",
     "N","O","P","Q","R","S","T","U","V","W","X","Y","Z"}

DigitChars == {"0","1","2","3","4","5","6","7","8","9"}

\* re.match('\s', char), restricted to the whitespace characters of the model
IsSpace(c) == c \in {" ", TAB, NL, CR, FF}

\* re.match('[a-zA-Z0-9.?!\-_]', char)
IsUnquotedChar(c) ==
    c \in LowerLetters \cup UpperLetters \cup DigitChars \cup {".", "?", "!", "-", "_"}

-----------------------------------------------------------------------------
(* Sequence helpers *)

Last(s) == s[Len(s)]

Front(s) == SubSeq(s, 1, Len(s) - 1)

Drop(s, n) == SubSeq(s, n + 1, Len(s))

Take(s, n) == SubSeq(s, 1, n)

RECURSIVE Flatten(_)
Flatten(ss) == IF ss = <<>> THEN <<>> ELSE Head(ss) \o Flatten(Tail(ss))

RECURSIVE Repeat(_, _)
Repeat(c, n) == IF n <= 0 THEN <<>> ELSE <<c>> \o Repeat(c, n - 1)

\* index of the first element of s that lies in set S, 0 when there is none
RECURSIVE FirstIn(_, _, _)
FirstIn(s, S, i) ==
    IF i > Len(s) THEN 0
    ELSE IF s[i] \in S THEN i
    ELSE FirstIn(s, S, i + 1)

-----------------------------------------------------------------------------
(* Values of the Python program: None, bool, int, float, str, list, dict.  *)
(* Every value is a record [kind, val].  A float is held exactly, as       *)
(* (-1)^neg * m * 10^e with m not divisible by 10, or as inf / nan.  A dict*)
(* is the sequence of its <<key, value>> pairs in insertion order.         *)

Unset == [kind |-> "unset", val |-> 0]

PyNone == [kind |-> "none", val |-> 0]

PyBool(b) == [kind |-> "bool", val |-> b]

PyInt(n) == [kind |-> "int", val |-> n]

PyFloat(cls, neg, m, e) == [kind |-> "float", val |-> [cls |-> cls, neg |-> neg, m |-> m, e |-> e]]

PyStr(cs) == [kind |-> "str", val |-> cs]

PyList(vs) == [kind |-> "list", val |-> vs]

PyDict(ps) == [kind |-> "dict", val |-> ps]

-----------------------------------------------------------------------------
(* Python's int(str), float(str), repr(float) and str(int), as far as the  *)
(* characters of an unquoted token (and '+') can exercise them.            *)

DigitSeq == <<"0","1","2","3","4","5","6","7","8","9">>

DigitVal(c) == CHOOSE d \in 0..9 : DigitSeq[d + 1] = c

AlphaLower ==
    <<"a","b","c","d","e","f","g","h","i","j","k","l","m",
      "n","o","p","q","r","s","t","u","v","w","x","y","z">>

AlphaUpper ==
    <<"A","B","C","D","E","F","G","H","I","J","K","L","M",
      "N","O","P","Q","R","S","T","U","V","W","X","Y","Z">>

Lower(c) ==
    IF c \in UpperLetters
    THEN AlphaLower[CHOOSE i \in 1..26 : AlphaUpper[i] = c]
    ELSE c

LowerSeq(s) == [i \in 1..Len(s) |-> Lower(s[i])]

RemoveUnderscores(s) == SelectSeq(s, LAMBDA c : c # "_")

\* digits, with single underscores allowed between two digits (PEP 515)
IsDigitPart(s) ==
    /\ Len(s) > 0
    /\ s[1] \in DigitChars
    /\ s[Len(s)] \in DigitChars
    /\ \A i \in 1..Len(s) : s[i] \in DigitChars \cup {"_"}
    /\ \A i \in 1..(Len(s) - 1) : ~(s[i] = "_" /\ s[i + 1] = "_")

RECURSIVE DigitsToNat(_)
DigitsToNat(ds) ==
    IF ds = <<>> THEN 0 ELSE 10 * DigitsToNat(Front(ds)) + DigitVal(Last(ds))

RECURSIVE NatToDigits(_)
NatToDigits(n) ==
    IF n < 10 THEN <<DigitSeq[n + 1]>>
    ELSE NatToDigits(n \div 10) \o <<DigitSeq[(n % 10) + 1]>>

HasSign(tok) == Len(tok) > 0 /\ tok[1] \in {"+", "-"}

Unsigned(tok) == IF HasSign(tok) THEN Tail(tok) ELSE tok

\* int(res): [ok |-> the call did not raise, val |-> the int]
ParseInt(tok) ==
    LET body == Unsigned(tok)
        n    == DigitsToNat(RemoveUnderscores(body))
    IN  IF IsDigitPart(body)
        THEN [ok |-> TRUE, val |-> IF HasSign(tok) /\ tok[1] = "-" THEN 0 - n ELSE n]
        ELSE [ok |-> FALSE, val |-> 0]

\* the number of zeros at the end of a digit sequence
RECURSIVE TrailingZeros(_)
TrailingZeros(ds) ==
    IF ds = <<>> \/ Last(ds) # "0" THEN 0 ELSE 1 + TrailingZeros(Front(ds))

RECURSIVE Pow10(_)
Pow10(n) == IF n <= 0 THEN 1 ELSE 10 * Pow10(n - 1)

\* the first nine significant digits of m (m has at most nine digits)
Lead9(m) == m * Pow10(9 - Len(NatToDigits(m)))

\* The IEEE double nearest to (-1)^neg * m * 10^e, m not divisible by 10.
\* A decimal exponent of the leading digit above 308 (or 308 with a mantissa
\* above 1.79769313...) overflows to inf; below 2.47e-324 underflows to zero.
RoundToDouble(neg, m, e) ==
    LET lead == e + Len(NatToDigits(m)) - 1
    IN  IF m = 0 THEN PyFloat("finite", neg, 0, 0)
        ELSE IF lead > 308 \/ (lead = 308 /\ Lead9(m) > 179769313)
        THEN PyFloat("inf", neg, 0, 0)
        ELSE IF lead < -324 \/ (lead = -324 /\ Lead9(m) < 247032823)
        THEN PyFloat("finite", neg, 0, 0)
        ELSE IF lead = -324
        THEN PyFloat("finite", neg, 5, -324)
        ELSE PyFloat("finite", neg, m, e)

\* float(res): [ok |-> the call did not raise, val |-> the float]
ParseFloat(tok) ==
    LET neg   == HasSign(tok) /\ tok[1] = "-"
        body  == Unsigned(tok)
        low   == LowerSeq(body)
        ePos  == FirstIn(body, {"e", "E"}, 1)
        mant  == IF ePos = 0 THEN body ELSE Take(body, ePos - 1)
        expo  == IF ePos = 0 THEN <<>> ELSE Drop(body, ePos)
        dot   == FirstIn(mant, {"."}, 1)
        ip    == IF dot = 0 THEN mant ELSE Take(mant, dot - 1)
        fp    == IF dot = 0 THEN <<>> ELSE Drop(mant, dot)
        expOk == ePos = 0 \/ IsDigitPart(Unsigned(expo))
        manOk == IF dot = 0 THEN IsDigitPart(ip)
                 ELSE /\ ip = <<>> \/ IsDigitPart(ip)
                      /\ fp = <<>> \/ IsDigitPart(fp)
                      /\ ~(ip = <<>> /\ fp = <<>>)
        fdig  == RemoveUnderscores(fp)
        expN  == DigitsToNat(RemoveUnderscores(Unsigned(expo)))
        expV  == IF HasSign(expo) /\ expo[1] = "-" THEN 0 - expN ELSE expN
        digs  == RemoveUnderscores(ip) \o fdig
        zeros == TrailingZeros(digs)
        m     == DigitsToNat(Take(digs, Len(digs) - zeros))
        e     == IF m = 0 THEN 0 ELSE expV - Len(fdig) + zeros
    IN  IF low \in {<<"i","n","f">>, <<"i","n","f","i","n","i","t","y">>}
        THEN [ok |-> TRUE, val |-> PyFloat("inf", neg, 0, 0)]
        ELSE IF low = <<"n","a","n">>
        THEN [ok |-> TRUE, val |-> PyFloat("nan", neg, 0, 0)]
        ELSE IF manOk /\ expOk
        THEN [ok |-> TRUE, val |-> RoundToDouble(neg, m, e)]
        ELSE [ok |-> FALSE, val |-> Unset]

\* math.isnan(flt) or math.isinf(flt)
IsNanOrInf(f) == f.val.cls \in {"nan", "inf"}

\* str(int)
IntRepr(n) == IF n < 0 THEN <<"-">> \o NatToDigits(0 - n) ELSE NatToDigits(n)

\* repr(float) of a finite float, which is what json.dumps writes: the
\* shortest digits, in fixed notation when the decimal exponent is in
\* -4..15 and in scientific notation (at least two exponent digits) otherwise
FloatRepr(f) ==
    LET ds    == NatToDigits(f.val.m)
        n     == Len(ds)
        decpt == n + f.val.e
        x     == decpt - 1
        xs    == NatToDigits(IF x < 0 THEN 0 - x ELSE x)
        sign  == IF f.val.neg THEN <<"-">> ELSE <<>>
        body  == IF f.val.m = 0 THEN <<"0", ".", "0">>
                 ELSE IF x < -4 \/ x >= 16
                 THEN <<ds[1]>> \o (IF n > 1 THEN <<".">> \o Tail(ds) ELSE <<>>)
                      \o <<"e", IF x < 0 THEN "-" ELSE "+">>
                      \o (IF Len(xs) < 2 THEN <<"0">> ELSE <<>>) \o xs
                 ELSE IF decpt <= 0
                 THEN <<"0", ".">> \o Repeat("0", 0 - decpt) \o ds
                 ELSE IF decpt >= n
                 THEN ds \o Repeat("0", decpt - n) \o <<".", "0">>
                 ELSE Take(ds, decpt) \o <<".">> \o Drop(ds, decpt)
    IN  sign \o body

\* a classifier that tries float() before int()
ClassifyTokenFloatFirst(res) ==
    LET i == ParseInt(res)
        f == ParseFloat(res)
    IN  IF res \in {<<"t","r","u","e">>, <<"T","r","u","e">>}
        THEN [raised |-> FALSE, val |-> PyBool(TRUE)]
        ELSE IF res \in {<<"f","a","l","s","e">>, <<"F","a","l","s","e">>}
        THEN [raised |-> FALSE, val |-> PyBool(FALSE)]
        ELSE IF res \in {<<"n","u","l","l">>, <<"N","o","n","e">>}
        THEN [raised |-> FALSE, val |-> PyNone]
        ELSE IF f.ok /\ IsNanOrInf(f.val)
        THEN [raised |-> TRUE, val |-> Unset]
        ELSE IF f.ok
        THEN [raised |-> FALSE, val |-> f.val]
        ELSE IF i.ok
        THEN [raised |-> FALSE, val |-> PyInt(i.val)]
        ELSE [raised |-> FALSE, val |-> PyStr(res)]

\* a classifier that tests math.isnan but not math.isinf
ClassifyTokenNanOnly(res) ==
    LET i == ParseInt(res)
        f == ParseFloat(res)
    IN  IF res \in {<<"t","r","u","e">>, <<"T","r","u","e">>}
        THEN [raised |-> FALSE, val |-> PyBool(TRUE)]
        ELSE IF res \in {<<"f","a","l","s","e">>, <<"F","a","l","s","e">>}
        THEN [raised |-> FALSE, val |-> PyBool(FALSE)]
        ELSE IF res \in {<<"n","u","l","l">>, <<"N","o","n","e">>}
        THEN [raised |-> FALSE, val |-> PyNone]
        ELSE IF i.ok
        THEN [raised |-> FALSE, val |-> PyInt(i.val)]
        ELSE IF f.ok /\ f.val.val.cls = "nan"
        THEN [raised |-> TRUE, val |-> Unset]
        ELSE IF f.ok
        THEN [raised |-> FALSE, val |-> f.val]
        ELSE [raised |-> FALSE, val |-> PyStr(res)]

\* lines 224-253 of _unquoted_text_lookahead_and_optionally_finish: the value
\* of the finished token res, or the error it raises
ClassifyToken(res) ==
    LET i == ParseInt(res)
        f == ParseFloat(res)
    IN  IF res \in {<<"t","r","u","e">>, <<"T","r","u","e">>}
        THEN [raised |-> FALSE, val |-> PyBool(TRUE)]
        ELSE IF res \in {<<"f","a","l","s","e">>, <<"F","a","l","s","e">>}
        THEN [raised |-> FALSE, val |-> PyBool(FALSE)]
        ELSE IF res \in {<<"n","u","l","l">>, <<"N","o","n","e">>}
        THEN [raised |-> FALSE, val |-> PyNone]
        ELSE IF i.ok
        THEN [raised |-> FALSE, val |-> PyInt(i.val)]
        ELSE IF f.ok /\ IsNanOrInf(f.val)
        THEN [raised |-> TRUE, val |-> Unset]
        ELSE IF f.ok
        THEN [raised |-> FALSE, val |-> f.val]
        ELSE [raised |-> FALSE, val |-> PyStr(res)]

-----------------------------------------------------------------------------
(* Quoted strings: the line-break preprocessing of lines 172-186 and       *)
(* ast.literal_eval of the re-quoted text (line 187).                      *)

\* the printable ASCII characters, codes 32..126 (the grave accent, which a
\* TLA+ string cannot hold, is named by its code)
Ascii ==
    <<
      " ","!","\"","#","$","%","&","'","(",")","*","+",
      ",","-",".","/","0","1","2","3","4","5","6","7",
      "8","9",":",";","<","=",">","?","@","A","B","C",
      "D","E","F","G","H","I","J","K","L","M","N","O",
      "P","Q","R","S","T","U","V","W","X","Y","Z","[",
      "\\","]","^","_","chr96","a","b","c","d","e","f","g",
      "h","i","j","k","l","m","n","o","p","q","r","s",
      "t","u","v","w","x","y","z","{","|","}","~"
    >>

\* chr(code); a character outside the model's alphabet is named by its code
Chr(code) ==
    IF code >= 32 /\ code <= 126 THEN Ascii[code - 31]
    ELSE IF code = 9 THEN TAB
    ELSE IF code = 10 THEN NL
    ELSE IF code = 12 THEN FF
    ELSE IF code = 13 THEN CR
    ELSE "chr" \o ToString(code)

OctChars == {"0","1","2","3","4","5","6","7"}

HexChars == DigitChars \cup {"a","b","c","d","e","f","A","B","C","D","E","F"}

HexVal(c) ==
    IF c \in DigitChars THEN DigitVal(c)
    ELSE 10 + ((CHOOSE i \in 1..6 : AlphaLower[i] = Lower(c)) - 1)

RECURSIVE HexToNat(_)
HexToNat(hs) ==
    IF hs = <<>> THEN 0 ELSE 16 * HexToNat(Front(hs)) + HexVal(Last(hs))

RECURSIVE OctToNat(_)
OctToNat(os) ==
    IF os = <<>> THEN 0 ELSE 8 * OctToNat(Front(os)) + DigitVal(Last(os))

\* lines 172-186: a line break becomes backslash + n, and the spaces and
\* tabs that follow a line break are dropped
RECURSIVE Preprocess(_, _, _)
Preprocess(res_builder, i, encountered_linebreak) ==
    IF i > Len(res_builder) THEN <<>>
    ELSE IF res_builder[i] = NL
    THEN <<BSL, "n">> \o Preprocess(res_builder, i + 1, TRUE)
    ELSE IF res_builder[i] \in {" ", TAB} /\ encountered_linebreak
    THEN Preprocess(res_builder, i + 1, encountered_linebreak)
    ELSE <<res_builder[i]>> \o Preprocess(res_builder, i + 1, FALSE)

\* number of leading characters of s that lie in S, at most n
RECURSIVE RunLen(_, _, _)
RunLen(s, S, n) ==
    IF n = 0 \/ s = <<>> \/ Head(s) \notin S THEN 0
    ELSE 1 + RunLen(Tail(s), S, n - 1)

SimpleEscapes == {BSL, SQ, DQ, "n", "t", "r", "f", "a", "b", "v"}

SimpleEscape(d) ==
    CASE d = "n" -> NL
      [] d = "t" -> TAB
      [] d = "r" -> CR
      [] d = "f" -> FF
      [] d = "a" -> Chr(7)
      [] d = "b" -> Chr(8)
      [] d = "v" -> Chr(11)
      [] OTHER   -> d

\* the decoding of a Python string literal body:
\* [ok |-> no SyntaxError, val |-> the decoded characters].  A line end
\* (line feed or carriage return) inside the literal is a SyntaxError unless
\* a backslash precedes it, which makes it a line continuation.
RECURSIVE DecodeEscapes(_)
DecodeEscapes(body) ==
    IF body = <<>> THEN [ok |-> TRUE, val |-> <<>>]
    ELSE IF Head(body) = BSL /\ Len(body) = 1
    THEN [ok |-> FALSE, val |-> <<>>]
    ELSE IF Head(body) \in {NL, CR}
    THEN [ok |-> FALSE, val |-> <<>>]
    ELSE IF Head(body) # BSL
    THEN LET r == DecodeEscapes(Tail(body))
         IN  [ok |-> r.ok, val |-> <<Head(body)>> \o r.val]
    ELSE
      LET d    == body[2]
          rest == Drop(body, 2)
          need == CASE d = "x" -> 2 [] d = "u" -> 4 [] d = "U" -> 8 [] OTHER -> 0
          nOct == RunLen(Tail(body), OctChars, 3)
          nHex == RunLen(rest, HexChars, need)
      IN  IF d \in SimpleEscapes
          THEN LET r == DecodeEscapes(rest)
               IN  [ok |-> r.ok, val |-> <<SimpleEscape(d)>> \o r.val]
          ELSE IF d \in {NL, CR}
          THEN DecodeEscapes(rest)
          ELSE IF d \in OctChars
          THEN LET r == DecodeEscapes(Drop(body, 1 + nOct))
               IN  [ok |-> r.ok,
                    val |-> <<Chr(OctToNat(SubSeq(body, 2, 1 + nOct)))>> \o r.val]
          ELSE IF d \in {"x", "u", "U"}
          THEN IF nHex < need
                  \/ (d = "U" /\ (Take(rest, 2) # <<"0", "0">>
                                  \/ HexToNat(SubSeq(rest, 3, 8)) > 1114111))
               THEN [ok |-> FALSE, val |-> <<>>]
               ELSE LET r == DecodeEscapes(Drop(rest, need))
                    IN  [ok |-> r.ok,
                         val |-> <<Chr(HexToNat(Take(rest, need)))>> \o r.val]
          ELSE IF d = "N"
          \* \N{name}: no Unicode character name is spelled by the texts of
          \* the model, so the lookup fails
          THEN [ok |-> FALSE, val |-> <<>>]
          ELSE LET r == DecodeEscapes(rest)
               IN  [ok |-> r.ok, val |-> <<BSL, d>> \o r.val]

\* ast.literal_eval(limiting_quote + res + limiting_quote)
LiteralEval(res) ==
    LET d == DecodeEscapes(res)
    IN  IF d.ok THEN [ok |-> TRUE, val |-> PyStr(d.val)]
        ELSE [ok |-> FALSE, val |-> Unset]

-----------------------------------------------------------------------------
(* json.dumps / json.loads, as used on the parser's own values             *)

\* json.dumps of an int, a float or a bool (line 142)
DumpsPrimitive(v) ==
    IF v.kind = "bool" THEN (IF v.val THEN <<"t","r","u","e">> ELSE <<"f","a","l","s","e">>)
    ELSE IF v.kind = "int" THEN IntRepr(v.val)
    ELSE FloatRepr(v)

\* d[k] = v on a dict held as a sequence of pairs: an existing key keeps its
\* place and takes the new value, a new key is appended
DictSet(d, k, v) ==
    IF \E i \in 1..Len(d) : d[i][1] = k
    THEN [i \in 1..Len(d) |-> IF d[i][1] = k THEN <<k, v>> ELSE d[i]]
    ELSE Append(d, <<k, v>>)

\* k in d
DictHas(d, k) == \E i \in 1..Len(d) : d[i][1] = k

\* json.loads(json.dumps(res)) (line 46): numbers are written and read back,
\* a None key is written as "null", and of two equal keys in the written
\* text the reader keeps the first one's place and the last one's value
RECURSIVE LoadsDumps(_)
RECURSIVE LoadsDumpsPairs(_, _)
LoadsDumps(v) ==
    IF v.kind = "int" THEN PyInt(ParseInt(IntRepr(v.val)).val)
    ELSE IF v.kind = "float" THEN ParseFloat(FloatRepr(v)).val
    ELSE IF v.kind = "list" THEN PyList([i \in 1..Len(v.val) |-> LoadsDumps(v.val[i])])
    ELSE IF v.kind = "dict" THEN PyDict(LoadsDumpsPairs(v.val, <<>>))
    ELSE v

LoadsDumpsPairs(ps, acc) ==
    IF ps = <<>> THEN acc
    ELSE LET k == Head(ps)[1]
             key == IF k = PyNone THEN PyStr(<<"n","u","l","l">>) ELSE k
         IN  LoadsDumpsPairs(Tail(ps), DictSet(acc, key, LoadsDumps(Head(ps)[2])))

-----------------------------------------------------------------------------
(* The parser.  A state s is the record of the variables; each operator    *)
(* below maps the state before a step to the state after it.               *)
(*                                                                         *)
(* pc: "start"  parser constructed, get_object not yet called (line 38)    *)
(*     "loop"   the innermost activation is at the head of its while loop  *)
(*     "return" the innermost activation has returned ret; its caller      *)
(*              (stack nonempty) or the wrapper (stack empty) resumes      *)
(*     "raised" an exception err is on its way to the wrapper (line 39)    *)
(*     "done"   parse_loosely_defined_json returned final (line 47)        *)
(*     "failed" parse_loosely_defined_json raised report (line 44)         *)

\* the locals of one activation of get_object; call names the call site at
\* which the activation waits for its callee: "list" (line 123), "key"
\* (line 137), "value" (line 153), or "none"
NewFrame ==
    [task |-> "none", res_builder |-> <<>>, expecting_comma |-> FALSE,
     stage |-> "none", quote_type |-> "none", string_escape |-> FALSE,
     next_dict_key |-> Unset, call |-> "none"]

\* a character list without the end-of-input sentinel
CharsNoSentinel(t) == t

\* self.chars (lines 55-58)
Chars(t) == Append(t, EOF)

\* self.chars[self.pos]
CharAt(s) == Chars(s.text)[s.pos + 1]

Top(s) == s.stack[Len(s.stack)]

SetTop(s, f) == [s EXCEPT !.stack[Len(s.stack)] = f]

\* raise: the exception leaves every activation
Raise(s, e) == [s EXCEPT !.pc = "raised", !.err = e, !.stack = <<>>]

\* return v from the innermost activation
Return(s, v) == [s EXCEPT !.pc = "return", !.ret = v, !.stack = Front(s.stack)]

\* self.get_object() called at call site c of the innermost activation
CallFrom(s, c) ==
    [s EXCEPT !.stack = Append(SetTop(s, [Top(s) EXCEPT !.call = c]).stack, NewFrame),
              !.pc = "loop"]

\* lines 212-214
Advance(s) == [s EXCEPT !.pos = @ + 1, !.col = @ + 1, !.pc = "loop"]

\* lines 70-73
UpdateLineCol(s) ==
    IF CharAt(s) = NL THEN [s EXCEPT !.line = @ + 1, !.col = 1] ELSE s

\* a lookahead that finishes the token only at the end of the input
LookaheadToSentinel(s, res_builder) ==
    IF s.pos + 2 > Len(Chars(s.text))
    THEN [exc |-> "index_error", is_finished |-> FALSE, res |-> Unset]
    ELSE LET next_char == Chars(s.text)[s.pos + 2]
             c == ClassifyToken(res_builder)
         IN  IF next_char # EOF
             THEN [exc |-> "none", is_finished |-> FALSE, res |-> Unset]
             ELSE IF c.raised
             THEN [exc |-> "nan_inf", is_finished |-> FALSE, res |-> Unset]
             ELSE [exc |-> "none", is_finished |-> TRUE, res |-> c.val]

\* _unquoted_text_lookahead_and_optionally_finish (lines 216-253):
\* exc is the exception raised, "none" if none
Lookahead(s, res_builder) ==
    IF s.pos + 2 > Len(Chars(s.text))
    THEN [exc |-> "index_error", is_finished |-> FALSE, res |-> Unset]
    ELSE LET next_char == Chars(s.text)[s.pos + 2]
             c == ClassifyToken(res_builder)
         IN  IF next_char # EOF /\ IsUnquotedChar(next_char)
             THEN [exc |-> "none", is_finished |-> FALSE, res |-> Unset]
             ELSE IF c.raised
             THEN [exc |-> "nan_inf", is_finished |-> FALSE, res |-> Unset]
             ELSE [exc |-> "none", is_finished |-> TRUE, res |-> c.val]

\* a finish that leaves pos one past the token
FinishOrAdvancePast(s) ==
    LET l == Lookahead(s, Top(s).res_builder)
    IN  IF l.exc # "none" THEN Raise(s, l.exc)
        ELSE IF l.is_finished THEN Return(Advance(s), l.res)
        ELSE Advance(s)

\* the use of the lookahead at lines 102-104 and 205-207
FinishOrAdvance(s) ==
    LET l == Lookahead(s, Top(s).res_builder)
    IN  IF l.exc # "none" THEN Raise(s, l.exc)
        ELSE IF l.is_finished THEN Return(s, l.res)
        ELSE Advance(s)

\* line 38
GetObjectCall(s) == [s EXCEPT !.stack = <<NewFrame>>, !.pc = "loop"]

\* an end of the loop that returns what a string or a list has built so far
LoopEndReturnsPartial(s) ==
    IF ~(s.pos < Len(Chars(s.text))) THEN Raise(s, "loop_exit")
    ELSE IF Top(s).task = "building_primitive" THEN Return(s, PyStr(Top(s).res_builder))
    ELSE IF Top(s).task = "building_list" THEN Return(s, PyList(Top(s).res_builder))
    ELSE Raise(s, "eof")

\* lines 66-69 and 215: the loop is left, or the sentinel is met
LoopEnd(s) ==
    IF ~(s.pos < Len(Chars(s.text))) THEN Raise(s, "loop_exit")
    ELSE Raise(s, "eof")

\* lines 75-106: no task yet
LookForStart(s0) ==
    LET s == UpdateLineCol(s0)
        char == CharAt(s)
        f == Top(s)
    IN  IF IsSpace(char) THEN Advance(s)
        ELSE IF char = "["
        THEN Advance(SetTop(s, [f EXCEPT !.task = "building_list",
                                         !.res_builder = <<>>,
                                         !.expecting_comma = FALSE]))
        ELSE IF char = "{"
        THEN Advance(SetTop(s, [f EXCEPT !.task = "building_dict",
                                         !.res_builder = <<>>,
                                         !.stage = "expecting_key"]))
        ELSE IF char = DQ
        THEN Advance(SetTop(s, [f EXCEPT !.task = "building_primitive",
                                         !.quote_type = "double_quotes",
                                         !.res_builder = <<>>,
                                         !.string_escape = FALSE]))
        ELSE IF char = SQ
        THEN Advance(SetTop(s, [f EXCEPT !.task = "building_primitive",
                                         !.quote_type = "single_quotes",
                                         !.res_builder = <<>>,
                                         !.string_escape = FALSE]))
        ELSE IF IsUnquotedChar(char)
        THEN FinishOrAdvance(SetTop(s, [f EXCEPT !.task = "building_primitive",
                                                 !.quote_type = "no_quotes",
                                                 !.res_builder = <<char>>,
                                                 !.string_escape = FALSE]))
        ELSE Raise(s, "unexpected_char")

\* a list whose whitespace branch goes to the next iteration without the
\* increment of lines 212-214
BuildingListSkipsIncrement(s0) ==
    LET s == UpdateLineCol(s0)
        char == CharAt(s)
        f == Top(s)
    IN  IF IsSpace(char) THEN [s EXCEPT !.pc = "loop"]
        ELSE IF char = ","
        THEN IF f.expecting_comma
             THEN Advance(SetTop(s, [f EXCEPT !.expecting_comma = FALSE]))
             ELSE Raise(s, "multiple_commas")
        ELSE IF char = "]" THEN Return(s, PyList(f.res_builder))
        ELSE IF f.expecting_comma THEN Raise(s, "missing_comma_list")
        ELSE CallFrom(s, "list")

\* a list that, like strict JSON, does not close after a comma
BuildingListStrict(s0) ==
    LET s == UpdateLineCol(s0)
        char == CharAt(s)
        f == Top(s)
    IN  IF IsSpace(char) THEN Advance(s)
        ELSE IF char = ","
        THEN IF f.expecting_comma
             THEN Advance(SetTop(s, [f EXCEPT !.expecting_comma = FALSE]))
             ELSE Raise(s, "multiple_commas")
        ELSE IF char = "]"
        THEN IF f.expecting_comma \/ f.res_builder = <<>>
             THEN Return(s, PyList(f.res_builder))
             ELSE Raise(s, "unexpected_char")
        ELSE IF f.expecting_comma THEN Raise(s, "missing_comma_list")
        ELSE CallFrom(s, "list")

\* a list that accepts every comma
BuildingListAnyComma(s0) ==
    LET s == UpdateLineCol(s0)
        char == CharAt(s)
        f == Top(s)
    IN  IF IsSpace(char) THEN Advance(s)
        ELSE IF char = ","
        THEN Advance(SetTop(s, [f EXCEPT !.expecting_comma = FALSE]))
        ELSE IF char = "]" THEN Return(s, PyList(f.res_builder))
        ELSE IF f.expecting_comma THEN Raise(s, "missing_comma_list")
        ELSE CallFrom(s, "list")

\* lines 107-123: one character of a list, up to the recursive call
BuildingList(s0) ==
    LET s == UpdateLineCol(s0)
        char == CharAt(s)
        f == Top(s)
    IN  IF IsSpace(char) THEN Advance(s)
        ELSE IF char = ","
        THEN IF f.expecting_comma
             THEN Advance(SetTop(s, [f EXCEPT !.expecting_comma = FALSE]))
             ELSE Raise(s, "multiple_commas")
        ELSE IF char = "]" THEN Return(s, PyList(f.res_builder))
        ELSE IF f.expecting_comma THEN Raise(s, "missing_comma_list")
        ELSE CallFrom(s, "list")

\* a resume that stores the element and skips the increment of lines 212-214
ResumeListNoAdvance(s) ==
    LET f == Top(s)
    IN  [SetTop(s, [f EXCEPT !.res_builder = Append(@, s.ret),
                             !.expecting_comma = TRUE,
                             !.call = "none"]) EXCEPT !.pc = "loop"]

\* lines 123-125 and 212-214: the element has been parsed
ResumeList(s) ==
    LET f == Top(s)
    IN  Advance(SetTop(s, [f EXCEPT !.res_builder = Append(@, s.ret),
                                    !.expecting_comma = TRUE,
                                    !.call = "none"]))

\* a dict that reads the next key after a pair without asking for a comma
BuildingDictNoComma(s0) ==
    LET s == UpdateLineCol(s0)
        char == CharAt(s)
        f == Top(s)
    IN  IF IsSpace(char) THEN Advance(s)
        ELSE IF char = "}"
        THEN IF f.stage \in {"expecting_key", "expecting_comma"}
             THEN Return(s, PyDict(f.res_builder))
             ELSE Raise(s, "closed_too_early")
        ELSE IF f.stage = "expecting_key" THEN CallFrom(s, "key")
        ELSE IF f.stage = "expecting_colon"
        THEN IF char = ":"
             THEN Advance(SetTop(s, [f EXCEPT !.stage = "expecting_value"]))
             ELSE Raise(s, "expected_colon")
        ELSE IF f.stage = "expecting_value" THEN CallFrom(s, "value")
        ELSE IF f.stage = "expecting_comma"
        THEN IF char = ","
             THEN Advance(SetTop(s, [f EXCEPT !.stage = "expecting_key"]))
             ELSE CallFrom(s, "key")
        ELSE Raise(s, "undefined_stage")

\* a dict that closes in every stage
BuildingDictAnyClose(s0) ==
    LET s == UpdateLineCol(s0)
        char == CharAt(s)
        f == Top(s)
    IN  IF IsSpace(char) THEN Advance(s)
        ELSE IF char = "}" THEN Return(s, PyDict(f.res_builder))
        ELSE IF f.stage = "expecting_key" THEN CallFrom(s, "key")
        ELSE IF f.stage = "expecting_colon"
        THEN IF char = ":"
             THEN Advance(SetTop(s, [f EXCEPT !.stage = "expecting_value"]))
             ELSE Raise(s, "expected_colon")
        ELSE IF f.stage = "expecting_value" THEN CallFrom(s, "value")
        ELSE IF f.stage = "expecting_comma"
        THEN IF char = ","
             THEN Advance(SetTop(s, [f EXCEPT !.stage = "expecting_key"]))
             ELSE Raise(s, "missing_comma_dict")
        ELSE Raise(s, "undefined_stage")

\* lines 126-162: one character of a dict, up to the recursive calls
BuildingDict(s0) ==
    LET s == UpdateLineCol(s0)
        char == CharAt(s)
        f == Top(s)
    IN  IF IsSpace(char) THEN Advance(s)
        ELSE IF char = "}"
        THEN IF f.stage \in {"expecting_key", "expecting_comma"}
             THEN Return(s, PyDict(f.res_builder))
             ELSE Raise(s, "closed_too_early")
        ELSE IF f.stage = "expecting_key" THEN CallFrom(s, "key")
        ELSE IF f.stage = "expecting_colon"
        THEN IF char = ":"
             THEN Advance(SetTop(s, [f EXCEPT !.stage = "expecting_value"]))
             ELSE Raise(s, "expected_colon")
        ELSE IF f.stage = "expecting_value" THEN CallFrom(s, "value")
        ELSE IF f.stage = "expecting_comma"
        THEN IF char = ","
             THEN Advance(SetTop(s, [f EXCEPT !.stage = "expecting_key"]))
             ELSE Raise(s, "missing_comma_dict")
        ELSE Raise(s, "undefined_stage")

\* a coercion by str() instead of json.dumps: True and False keep their
\* Python spelling
CoerceKeyByStr(k) ==
    IF k.kind = "str" THEN k
    ELSE IF k.kind = "bool"
    THEN PyStr(IF k.val THEN <<"T","r","u","e">> ELSE <<"F","a","l","s","e">>)
    ELSE IF k.kind \in {"int", "float"} THEN PyStr(DumpsPrimitive(k))
    ELSE k

\* lines 138-142: a key that is an int, a float or a bool becomes its JSON text
CoerceKey(k) ==
    IF k.kind = "str" THEN k
    ELSE IF k.kind \in {"int", "float", "bool"} THEN PyStr(DumpsPrimitive(k))
    ELSE k

\* lines 137-145 and 212-214: the key has been parsed.  A list or dict key
\* is unhashable: the membership test of line 143 raises TypeError
ResumeKey(s) ==
    LET f == Top(s)
        next_dict_key == CoerceKey(s.ret)
    IN  IF next_dict_key.kind \in {"list", "dict"} THEN Raise(s, "unhashable")
        ELSE IF DictHas(f.res_builder, next_dict_key) THEN Raise(s, "duplicate_key")
        ELSE Advance(SetTop(s, [f EXCEPT !.next_dict_key = next_dict_key,
                                         !.stage = "expecting_colon",
                                         !.call = "none"]))

\* a resume that stores the pair and goes straight back to expecting a key
ResumeValueToKey(s) ==
    LET f == Top(s)
    IN  Advance(SetTop(s, [f EXCEPT !.res_builder = DictSet(@, f.next_dict_key, s.ret),
                                    !.stage = "expecting_key",
                                    !.call = "none"]))

\* lines 153-155 and 212-214: the value has been parsed
ResumeValue(s) ==
    LET f == Top(s)
    IN  Advance(SetTop(s, [f EXCEPT !.res_builder = DictSet(@, f.next_dict_key, s.ret),
                                    !.stage = "expecting_comma",
                                    !.call = "none"]))

\* a string whose escape flag is set by every backslash
BuildingQuotedNoToggle(s0) ==
    LET s == UpdateLineCol(s0)
        char == CharAt(s)
        f == Top(s)
        limiting_quote == IF f.quote_type = "double_quotes" THEN DQ ELSE SQ
        res == LiteralEval(Preprocess(f.res_builder, 1, FALSE))
    IN  IF char = limiting_quote /\ ~f.string_escape
        THEN IF res.ok THEN Return(s, res.val) ELSE Raise(s, "literal_eval")
        ELSE Advance(SetTop(s, [f EXCEPT !.res_builder = Append(@, char),
                                         !.string_escape = (char = BSL)]))

\* lines 164-198: one character of a quoted string
BuildingQuoted(s0) ==
    LET s == UpdateLineCol(s0)
        char == CharAt(s)
        f == Top(s)
        limiting_quote == IF f.quote_type = "double_quotes" THEN DQ ELSE SQ
        res == LiteralEval(Preprocess(f.res_builder, 1, FALSE))
    IN  IF char = limiting_quote /\ ~f.string_escape
        THEN IF res.ok THEN Return(s, res.val) ELSE Raise(s, "literal_eval")
        ELSE Advance(SetTop(s, [f EXCEPT !.res_builder = Append(@, char),
                                         !.string_escape = (char = BSL /\ ~f.string_escape)]))

\* lines 199-207: one more character of an unquoted token
BuildingUnquoted(s0) ==
    LET s == UpdateLineCol(s0)
        char == CharAt(s)
        f == Top(s)
    IN  IF ~IsUnquotedChar(char) THEN Raise(s, "unquoted_unreachable")
        ELSE FinishOrAdvance(SetTop(s, [f EXCEPT !.res_builder = Append(@, char)]))

\* lines 163-164, 199, 208-211: the branches no task or quotation reaches
Undefined(s0) ==
    LET s == UpdateLineCol(s0)
    IN  IF Top(s).task = "building_primitive" THEN Raise(s, "undefined_quotation")
        ELSE Raise(s, "undefined_task")

\* a wrapper that accepts the value only when nothing but the sentinel follows it
WrapperReturnStrict(s) ==
    IF s.pos + 1 < Len(s.text)
    THEN [s EXCEPT !.pc = "failed",
                   !.report = [line |-> s.line, col |-> s.col, char |-> CharAt(s),
                               msg |-> "trailing"]]
    ELSE [s EXCEPT !.pc = "done", !.final = LoadsDumps(s.ret)]

\* lines 45-47: get_object returned to the wrapper
WrapperReturn(s) == [s EXCEPT !.pc = "done", !.final = LoadsDumps(s.ret)]

\* lines 39-44: the wrapper reports the exception with the parser's position
WrapperRaise(s) ==
    [s EXCEPT !.pc = "failed",
              !.report = [line |-> s.line, col |-> s.col,
                          char |-> IF s.pos < Len(Chars(s.text)) THEN CharAt(s)
                                   ELSE "IndexError",
                          msg |-> s.err]]

\* which piece of code runs next in state s
Branch(s) ==
    IF s.pc = "start" THEN "call"
    ELSE IF s.pc = "raised" THEN "wrapper_raise"
    ELSE IF s.pc = "return"
    THEN (IF s.stack = <<>> THEN "wrapper_return" ELSE Top(s).call)
    ELSE IF s.pc # "loop" THEN "halt"
    ELSE IF ~(s.pos < Len(Chars(s.text))) \/ CharAt(s) = EOF THEN "loop_end"
    ELSE IF Top(s).task = "none" THEN "look_for_start"
    ELSE IF Top(s).task = "building_list" THEN "building_list"
    ELSE IF Top(s).task = "building_dict" THEN "building_dict"
    ELSE IF Top(s).task = "building_primitive"
            /\ Top(s).quote_type \in {"double_quotes", "single_quotes"}
    THEN "building_quoted"
    ELSE IF Top(s).task = "building_primitive" /\ Top(s).quote_type = "no_quotes"
    THEN "building_unquoted"
    ELSE "undefined"

\* one step of the program from state s
StepOf(s) ==
    LET b == Branch(s)
    IN  CASE b = "call"              -> GetObjectCall(s)
          [] b = "loop_end"          -> LoopEnd(s)
          [] b = "look_for_start"    -> LookForStart(s)
          [] b = "building_list"     -> BuildingList(s)
          [] b = "building_dict"     -> BuildingDict(s)
          [] b = "building_quoted"   -> BuildingQuoted(s)
          [] b = "building_unquoted" -> BuildingUnquoted(s)
          [] b = "list"              -> ResumeList(s)
          [] b = "key"               -> ResumeKey(s)
          [] b = "value"             -> ResumeValue(s)
          [] b = "wrapper_return"    -> WrapperReturn(s)
          [] b = "wrapper_raise"     -> WrapperRaise(s)
          [] b = "undefined"         -> Undefined(s)
          [] OTHER                   -> s

NoReport == [line |-> 0, col |-> 0, char |-> "none", msg |-> "none"]

\* LooseJsonParser(text) (lines 35-36 and 51-58)
NewParser(t) ==
    [text |-> t, pos |-> 0, line |-> 1, col |-> 1, stack |-> <<>>, pc |-> "start",
     ret |-> Unset, err |-> "none", final |-> Unset, report |-> NoReport]

\* the whole of parse_loosely_defined_json from state s on
RECURSIVE Run(_)
Run(s) == IF Branch(s) = "halt" THEN s ELSE Run(StepOf(s))

\* parse_loosely_defined_json(t): the final state
Parse(t) == Run(NewParser(t))

-----------------------------------------------------------------------------
(* The state machine *)

cur ==
    [text |-> text, pos |-> pos, line |-> line, col |-> col, stack |-> stack,
     pc |-> pc, ret |-> ret, err |-> err, final |-> final, report |-> report]

\* the step's outcome is computed once (n) and becomes the next state
Becomes(s) ==
    \E n \in {s} :
        /\ text' = n.text
        /\ pos' = n.pos
        /\ line' = n.line
        /\ col' = n.col
        /\ stack' = n.stack
        /\ pc' = n.pc
        /\ ret' = n.ret
        /\ err' = n.err
        /\ final' = n.final
        /\ report' = n.report

-----------------------------------------------------------------------------
(* Input texts.  Each specification draws the text from a bounded family.  *)

\* list(text) (line 55): the characters of a string
Str(str) == [i \in 1..Len(str) |-> SubSeq(str, i, i)]

RECURSIVE SeqsUpTo(_, _)
SeqsUpTo(S, n) ==
    IF n = 0 THEN {<<>>}
    ELSE LET shorter == SeqsUpTo(S, n - 1)
         IN  shorter \cup {Append(w, c) : w \in {x \in shorter : Len(x) = n - 1}, c \in S}

\* the texts of the examples of the documentation
Examples ==
    {Str("{\"a\":1,\"b\":2,}"), Str("[1 2]"), Str("{'a':1,'a':2}"),
     Str("[a, b, true, null, 3, 4.5]"), Str("'line1\n   line2'"),
     Str("[1,,2]"), Str("[,1]"), Str("[\"a\"\"b\"]"), Str("{a:1 b:2}"),
     Str("{null:1,\"null\":2}"), Str("{}"), Str("[1e+20]"), Str("[1,"), Str("{a:"),
     Str("'a\\'"), Str("")}

\* (1) every text of at most MaxLen characters over a small alphabet
MaxLen == 3

Alphabet == {"[", "]", "{", "}", ",", ":", SQ, BSL, " ", NL, "a", "1"}

Texts == SeqsUpTo(Alphabet, MaxLen) \cup Examples

\* (2) lists and dicts built from at most MaxItems chunks, closed or not
MaxItems == 2

ListChunks ==
    {Str("1"), Str("1,"), Str("1 "), Str(","), Str(" "), Str("'a',"), Str("1, "),
     Str("[1,],"), Str("{a:1,}"), Str("\n")}

Keys == {Str("a"), Str("'a'"), Str("1"), Str("\"1\""), Str("null"), Str("\"null\"")}

DictChunks ==
    {k \o Str(":1,") : k \in Keys}
    \cup {Str("a:1"), Str("b:2 ,"), Str("b :2 "), Str("b"), Str(":"), Str(","),
          Str("b:[1,],"), Str("\n")}

Closings(c) == {<<>>, <<c>>, <<c, "]">>, <<c, " ", "1">>}

StructTexts ==
    {<<"[">> \o Flatten(w) \o c : w \in SeqsUpTo(ListChunks, MaxItems), c \in Closings("]")}
    \cup {<<"{">> \o Flatten(w) \o c : w \in SeqsUpTo(DictChunks, MaxItems), c \in Closings("}")}
    \cup {Str("[") \o <<"{">> \o Flatten(w) \o Str("}]") : w \in SeqsUpTo(DictChunks, MaxItems)}
    \cup Examples

\* (3) unquoted tokens of at most MaxTok characters, and some longer ones, in
\* every place where a value can stand
MaxTok == 3

TokAlphabet == {"1", "e", "-", ".", "n", "a", "i", "f"}

NamedTokens ==
    {Str("true"), Str("True"), Str("false"), Str("False"), Str("null"), Str("None"),
     Str("TRUE"), Str("nul"), Str("Infinity"), Str("-Infinity"), Str("infinity"),
     Str("NaN"), Str("-nan"), Str("-inf"), Str("INF"), Str("1e999"), Str("-1e999"),
     Str("9e308"), Str("1e308"), Str("1e-999"), Str("4.5"), Str("1_0"), Str("1__0"),
     Str("1e5"), Str("1.5e-5"), Str("0x10"), Str("infi"), Str("?"), Str("a.b"), Str("3")}

Tokens == (SeqsUpTo(TokAlphabet, MaxTok) \ {<<>>}) \cup NamedTokens

TokTexts ==
    UNION {{t, Str("[") \o t \o Str("]"), Str("[1, ") \o t,
            Str("{") \o t \o Str(":1}"), Str("{a:") \o t \o Str("\n}")}
           : t \in Tokens}
    \cup Examples

\* (5) quoted strings whose raw content has at most MaxBody characters,
\* alone and as the element of a list
MaxBody == 3

StrAlphabet == {BSL, NL, " ", TAB, "a", "n", SQ, DQ}

StrTexts ==
    UNION {{<<SQ>> \o b \o <<SQ>>, <<DQ>> \o b \o <<DQ>>,
            <<"[", SQ>> \o b \o <<SQ, "]">>}
           : b \in SeqsUpTo(StrAlphabet, MaxBody)}
    \cup Examples

\* (4) canonical JSON texts of JSON values: json.dumps with its default
\* separators (spaced) or with the compact ones
JsonStringEscape(c) ==
    CASE c = DQ  -> <<BSL, DQ>>
      [] c = BSL -> <<BSL, BSL>>
      [] c = NL  -> <<BSL, "n">>
      [] c = TAB -> <<BSL, "t">>
      [] c = CR  -> <<BSL, "r">>
      [] c = FF  -> <<BSL, "f">>
      [] OTHER   -> <<c>>

RECURSIVE JsonDumps(_, _)
RECURSIVE JsonDumpsItems(_, _, _)
JsonDumps(v, spaced) ==
    IF v.kind = "none" THEN Str("null")
    ELSE IF v.kind \in {"bool", "int", "float"} THEN DumpsPrimitive(v)
    ELSE IF v.kind = "str"
    THEN <<DQ>> \o Flatten([i \in 1..Len(v.val) |-> JsonStringEscape(v.val[i])]) \o <<DQ>>
    ELSE IF v.kind = "list"
    THEN <<"[">> \o JsonDumpsItems(v.val, spaced, FALSE) \o <<"]">>
    ELSE <<"{">> \o JsonDumpsItems(v.val, spaced, TRUE) \o <<"}">>

JsonDumpsItems(items, spaced, pairs) ==
    IF items = <<>> THEN <<>>
    ELSE LET it == Head(items)
             one == IF pairs
                    THEN JsonDumps(it[1], spaced) \o (IF spaced THEN Str(": ") ELSE Str(":"))
                         \o JsonDumps(it[2], spaced)
                    ELSE JsonDumps(it, spaced)
         IN  IF Len(items) = 1 THEN one
             ELSE one \o (IF spaced THEN Str(", ") ELSE Str(","))
                      \o JsonDumpsItems(Tail(items), spaced, pairs)

\* the number tokens of the JSON grammar: -? int frac? exp?
JsonNumberTokens ==
    {sg \o ip \o fr \o ex :
        sg \in {<<>>, Str("-")},
        ip \in {Str("0"), Str("1"), Str("12")},
        fr \in {<<>>, Str(".5"), Str(".25")},
        ex \in {<<>>, Str("e2"), Str("E2"), Str("e-2"), Str("e+2"), Str("e+20"), Str("e-07")}}

\* the value json.loads gives a JSON number token: int(text) when it has
\* neither fraction nor exponent, float(text) otherwise
JsonNumberValue(tok) ==
    IF \E i \in 1..Len(tok) : tok[i] \in {".", "e", "E"}
    THEN ParseFloat(tok).val
    ELSE PyInt(ParseInt(tok).val)

JsonScalars ==
    {PyNone, PyBool(TRUE), PyBool(FALSE), PyInt(0), PyInt(-12),
     PyFloat("finite", FALSE, 45, -1), PyFloat("finite", FALSE, 1, 20),
     PyFloat("finite", TRUE, 1, -7), PyFloat("finite", FALSE, 1, 2),
     PyStr(<<>>), PyStr(Str("a")), PyStr(Str("null")), PyStr(Str("a\"b'\\c")),
     PyStr(Str("a\n  b\t")), PyStr(Str("1e+2"))}

\* <<text, value>>: a scalar with each of its encodings
JsonLeaves ==
    {<<tok, JsonNumberValue(tok)>> : tok \in JsonNumberTokens}
    \cup {<<JsonDumps(v, TRUE), v>> : v \in JsonScalars}

JsonKeys == {PyStr(Str("a")), PyStr(Str("b")), PyStr(Str("null")), PyStr(Str("1"))}

\* <<text, value>>: the leaves, alone and nested in arrays and objects
JsonPairs ==
    LET small == {<<JsonDumps(v, TRUE), v>> : v \in JsonScalars}
        one   == JsonLeaves
                 \cup {<<Str("[") \o p[1] \o Str("]"), PyList(<<p[2]>>)>> : p \in JsonLeaves}
                 \cup {<<Str("{\"a\": ") \o p[1] \o Str("}"),
                         PyDict(<<<<PyStr(Str("a")), p[2]>>>>)>> : p \in JsonLeaves}
        two   == {PyList(<<p[2], q[2]>>) : p \in small, q \in small}
                 \cup {PyDict(<<<<kl[1], p[2]>>, <<kl[2], p[2]>>>>) :
                          p \in small,
                          kl \in {x \in JsonKeys \X JsonKeys : x[1] # x[2]}}
                 \cup {PyList(<<PyList(<<p[2]>>), PyDict(<<<<k, PyList(<<p[2], p[2]>>)>>>>)>>) :
                          p \in small, k \in JsonKeys}
    IN  one \cup {<<JsonDumps(v, sp), v>> : v \in two, sp \in BOOLEAN}

JsonTexts == {p[1] : p \in JsonPairs} \cup Examples

\* (6) the family of the fair specification: every text of at most MaxFair
\* characters over the structural characters, and short texts that make every
\* step happen.  A token is classified and a string is decoded within one step,
\* so which steps are taken does not rest on long tokens; evaluating ENABLED
\* recomputes a token's arithmetic many times over, which is why they are
\* kept short here.
MaxFair == 3

FairAlphabet == {"[", "]", "{", ",", " ", "a"}

FairTexts ==
    SeqsUpTo(FairAlphabet, MaxFair)
        \cup {Str("{\"a\":1,\"b\":2,}"), Str("[1 2]"), Str("{'a':1,'a':2}"),
              Str("[a, b, true, null, 3]"), Str("[1,,2]"), Str("[,1]"),
              Str("[\"a\"\"b\"]"), Str("{a:1 b:2}"), Str("{null:1,\"null\":2}"),
              Str("'a\\'"), Str("'a\nb'"), Str("[[1, {a:[2]}], 3]"), Str("{}"),
              Str("{a:"), Str("{a:}"), Str("{a}"), Str("{:"), Str("[1,")}

InitWith(T) ==
    /\ text \in T
    /\ pos = 0
    /\ line = 1
    /\ col = 1
    /\ stack = <<>>
    /\ pc = "start"
    /\ ret = Unset
    /\ err = "none"
    /\ final = Unset
    /\ report = NoReport

Init == InitWith(Texts)

InitStruct == InitWith(StructTexts)

InitTok == InitWith(TokTexts)

InitStr == InitWith(StrTexts)

InitJson == InitWith(JsonTexts)

InitFair == InitWith(FairTexts)

DoCall == Branch(cur) = "call" /\ Becomes(GetObjectCall(cur))

DoLoopEnd == Branch(cur) = "loop_end" /\ Becomes(LoopEnd(cur))

DoLookForStart == Branch(cur) = "look_for_start" /\ Becomes(LookForStart(cur))

DoBuildingList == Branch(cur) = "building_list" /\ Becomes(BuildingList(cur))

DoBuildingDict == Branch(cur) = "building_dict" /\ Becomes(BuildingDict(cur))

DoBuildingQuoted == Branch(cur) = "building_quoted" /\ Becomes(BuildingQuoted(cur))

DoBuildingUnquoted == Branch(cur) = "building_unquoted" /\ Becomes(BuildingUnquoted(cur))

DoResumeList == Branch(cur) = "list" /\ Becomes(ResumeList(cur))

DoResumeKey == Branch(cur) = "key" /\ Becomes(ResumeKey(cur))

DoResumeValue == Branch(cur) = "value" /\ Becomes(ResumeValue(cur))

DoWrapperReturn == Branch(cur) = "wrapper_return" /\ Becomes(WrapperReturn(cur))

DoWrapperRaise == Branch(cur) = "wrapper_raise" /\ Becomes(WrapperRaise(cur))

Next ==
    \/ DoCall
    \/ DoLoopEnd
    \/ DoLookForStart
    \/ DoBuildingList
    \/ DoBuildingDict
    \/ DoBuildingQuoted
    \/ DoBuildingUnquoted
    \/ DoResumeList
    \/ DoResumeKey
    \/ DoResumeValue
    \/ DoWrapperReturn
    \/ DoWrapperRaise

Spec == Init /\ [][Next]_vars

\* the program is sequential: whenever it has a next step it takes it
SpecFair == InitFair /\ [][Next]_vars /\ WF_vars(Next)

SpecStruct == InitStruct /\ [][Next]_vars

SpecTok == InitTok /\ [][Next]_vars

SpecStr == InitStr /\ [][Next]_vars

SpecJson == InitJson /\ [][Next]_vars

-----------------------------------------------------------------------------
(* Properties *)

Halted == pc \in {"done", "failed"}

\* the frames of the activations that are building a dict
DictFrames == {i \in 1..Len(stack) : stack[i].task = "building_dict"}

\* C1: round trip.  For every JSON value v and every canonical JSON text of
\* v, parsing the text succeeds and returns a value structurally equal to v.
C1_RoundTrip ==
    \A p \in JsonPairs :
        (text = p[1] /\ Halted) => (pc = "done" /\ final = p[2])

\* 1 + the number of line feeds before index p (0-based) of t
TrueLine(t, p) == 1 + Cardinality({i \in 1..p : t[i] = NL})

\* 1 + the number of characters between the last line feed before index p
\* (or the start of t) and p
TrueCol(t, p) ==
    LET feeds == {i \in 1..p : t[i] = NL}
    IN  IF feeds = {} THEN 1 + p
        ELSE 1 + p - (CHOOSE i \in feeds : \A j \in feeds : j <= i)

\* C2: the line and column of a rejected input's error are the 1-based line
\* and column of the offending character chars[pos].
C2_ErrorPosition ==
    pc = "failed" =>
        /\ report.line = TrueLine(text, pos)
        /\ report.col = TrueCol(text, pos)

\* the key text a key denotes: the text itself for a string, the JSON text
\* for None, a bool, an int or a float
KeyText(k) ==
    IF k.kind = "str" THEN k.val
    ELSE IF k.kind = "none" THEN Str("null")
    ELSE DumpsPrimitive(k)

\* the number of key/value pairs in all the dicts of a value
RECURSIVE PairCount(_)
RECURSIVE PairCountSeq(_)
PairCount(v) ==
    IF v.kind = "list" THEN PairCountSeq(v.val)
    ELSE IF v.kind = "dict"
    THEN Len(v.val) + PairCountSeq([i \in 1..Len(v.val) |-> v.val[i][2]])
    ELSE 0

PairCountSeq(vs) ==
    IF vs = <<>> THEN 0 ELSE PairCount(Head(vs)) + PairCountSeq(Tail(vs))

\* the keys an activation has accepted: those stored, and the pending one
AcceptedKeys(f) ==
    [i \in 1..Len(f.res_builder) |-> f.res_builder[i][1]]
    \o (IF f.stage \in {"expecting_colon", "expecting_value"}
        THEN <<f.next_dict_key>> ELSE <<>>)

\* C3: object keys are unique.  No object accepts two keys that denote the
\* same key text after coercion, and a successful parse returns as many
\* pairs as the parser stored.
C3_UniqueKeys ==
    /\ \A i \in DictFrames :
          LET ks == AcceptedKeys(stack[i])
          IN  \A a, b \in 1..Len(ks) : a # b => KeyText(ks[a]) # KeyText(ks[b])
    /\ pc = "done" => PairCount(final) = PairCount(ret)

-----------------------------------------------------------------------------
(* Positions in the text, for the properties below *)

\* the innermost activation is at the head of its loop, at a character
AtLoop == pc = "loop" /\ stack # <<>> /\ pos < Len(text)

\* the task of the innermost activation
TopTask == stack[Len(stack)].task

\* the 1-based index of the last character of t before index p (0-based)
\* that is not whitespace, 0 if there is none
PrevSig(t, p) ==
    LET sig == {i \in 1..p : ~IsSpace(t[i])}
    IN  IF sig = {} THEN 0 ELSE CHOOSE i \in sig : \A j \in sig : j <= i

\* the character at PrevSig, "none" if there is none
PrevSigChar(t, p) == IF PrevSig(t, p) = 0 THEN "none" ELSE t[PrevSig(t, p)]

\* t without its character at 1-based index i
RemoveAt(t, i) == Take(t, i - 1) \o Drop(t, i)

\* the longest run of unquoted characters of t that ends at index p (0-based)
TokenAt(t, p) ==
    LET starts == {i \in 1..(p + 1) : \A j \in i..(p + 1) : IsUnquotedChar(t[j])}
    IN  IF starts = {} THEN <<>>
        ELSE SubSeq(t, CHOOSE i \in starts : \A j \in starts : i <= j, p + 1)

\* the character at pos is the last one of an unquoted token
EndsToken(t, p) ==
    /\ p < Len(t)
    /\ IsUnquotedChar(t[p + 1])
    /\ p + 1 = Len(t) \/ ~IsUnquotedChar(t[p + 2])

\* C4: end of input.  When the position reaches the end-of-input sentinel,
\* before any value has started or inside an unfinished string, array or
\* object, get_object has not returned and does not return a value: the only
\* outcome is the end-of-input error, and the parse fails with it.
C4_EndOfInput ==
    /\ pos <= Len(text)
    /\ pos = Len(text) =>
          /\ pc \in {"start", "loop", "raised", "failed"}
          /\ pc = "raised" => err = "eof"
          /\ pc = "failed" => report.msg = "eof"
          /\ Run(cur).pc = "failed"
          /\ Run(cur).report.msg = "eof"

\* the parse of a string whose only candidate closing quote is escaped has
\* failed at the end of input
C4_EscapedQuoteAtEnd ==
    /\ pc = "failed"
    /\ report.msg = "eof"
    /\ pos = Len(text)
    /\ Len(text) >= 3
    /\ text[1] = SQ
    /\ text[Len(text) - 1] = BSL
    /\ text[Len(text)] = SQ

\* the 1-based index of the comma when the innermost activation, building a
\* list or a dict, is at the closing bracket and the last character before it
\* that is not whitespace is a comma; 0 otherwise
TrailingCommaAt ==
    IF /\ AtLoop
       /\ \/ TopTask = "building_list" /\ CharAt(cur) = "]"
          \/ TopTask = "building_dict" /\ CharAt(cur) = "}"
       /\ PrevSigChar(text, pos) = ","
    THEN PrevSig(text, pos) ELSE 0

\* C5: trailing comma.  A list or dict whose last element or pair is followed
\* by one comma and optional whitespace closes successfully, and the parse of
\* the text has the same outcome and value as the parse of the text without
\* that comma; {"a":1,"b":2,} gives {"a":1,"b":2}.
C5_TrailingComma ==
    /\ TrailingCommaAt # 0 =>
          LET step    == StepOf(cur)
              with    == Run(cur)
              without == Parse(RemoveAt(text, TrailingCommaAt))
          IN  /\ step.pc = "return"
              /\ step.ret.kind = (IF TopTask = "building_list" THEN "list" ELSE "dict")
              /\ Len(step.ret.val) >= 1
              /\ Len(stack) = 1 => with.pc = "done"
              /\ with.pc = without.pc
              /\ with.final = without.final
              /\ with.report.msg = without.report.msg
    /\ (text = Str("{\"a\":1,\"b\":2,}") /\ Halted) =>
          /\ pc = "done"
          /\ final = PyDict(<<<<PyStr(Str("a")), PyInt(1)>>, <<PyStr(Str("b")), PyInt(2)>>>>)

\* a dict with a comma and whitespace before its closing bracket has been
\* parsed
C5_ParsedWithTrailingComma ==
    /\ pc = "done"
    /\ pos < Len(text)
    /\ text[pos + 1] = "}"
    /\ PrevSigChar(text, pos) = ","
    /\ PrevSig(text, pos) < pos
    /\ final.kind = "dict"
    /\ Len(final.val) >= 1

\* C6: commas in a list.  At a comma in a list, if the last character before
\* it that is not whitespace is the opening bracket or another comma, the
\* multiple-commas error is raised and the parse fails with it; otherwise an
\* element has been parsed since then and the comma is accepted.  [,1] and
\* [1,,2] fail with that error.
C6_MultipleCommas ==
    /\ (AtLoop /\ TopTask = "building_list" /\ CharAt(cur) = ",") =>
          IF PrevSigChar(text, pos) \in {"[", ","}
          THEN /\ StepOf(cur).pc = "raised"
               /\ StepOf(cur).err = "multiple_commas"
               /\ Run(cur).pc = "failed"
               /\ Run(cur).report.msg = "multiple_commas"
          ELSE /\ StepOf(cur).pc = "loop"
               /\ StepOf(cur).pos = pos + 1
               /\ Len(stack[Len(stack)].res_builder) >= 1
    /\ (text \in {Str("[,1]"), Str("[1,,2]")} /\ Halted) =>
          /\ pc = "failed"
          /\ report.msg = "multiple_commas"

\* the parse has failed at a comma that follows another comma and whitespace
C6_FailedAtSecondComma ==
    /\ pc = "failed"
    /\ report.msg = "multiple_commas"
    /\ text[pos + 1] = ","
    /\ PrevSigChar(text, pos) = ","
    /\ PrevSig(text, pos) < pos

\* the pending key of a dict activation has its value stored
PairStored(f) == DictHas(f.res_builder, f.next_dict_key)

\* C7: missing comma.  In a list after an element, and in a dict after a
\* complete key:value pair, every character other than whitespace, a comma
\* and the matching closing bracket raises the missing-comma error and the
\* parse fails with it.  [1 2], ["a""b"] and {a:1 b:2} fail with it.
C7_MissingComma ==
    /\ (/\ AtLoop
        /\ TopTask = "building_list"
        /\ PrevSigChar(text, pos) \notin {"[", ","}
        /\ ~IsSpace(CharAt(cur))
        /\ CharAt(cur) \notin {",", "]"}) =>
          /\ StepOf(cur).pc = "raised"
          /\ StepOf(cur).err = "missing_comma_list"
          /\ Run(cur).pc = "failed"
          /\ Run(cur).report.msg = "missing_comma_list"
    /\ (/\ AtLoop
        /\ TopTask = "building_dict"
        /\ PairStored(stack[Len(stack)])
        /\ PrevSigChar(text, pos) # ","
        /\ ~IsSpace(CharAt(cur))
        /\ CharAt(cur) \notin {",", "}"}) =>
          /\ StepOf(cur).pc = "raised"
          /\ StepOf(cur).err = "missing_comma_dict"
          /\ Run(cur).pc = "failed"
          /\ Run(cur).report.msg = "missing_comma_dict"
    /\ (text \in {Str("[1 2]"), Str("[\"a\"\"b\"]")} /\ Halted) =>
          /\ pc = "failed"
          /\ report.msg = "missing_comma_list"
    /\ (text = Str("{a:1 b:2}") /\ Halted) =>
          /\ pc = "failed"
          /\ report.msg = "missing_comma_dict"

\* the parse has failed at the second of two pairs that only whitespace
\* separates
C7_FailedAtSecondPair ==
    /\ pc = "failed"
    /\ report.msg = "missing_comma_dict"
    /\ pos >= 1
    /\ IsSpace(text[pos])
    /\ IsUnquotedChar(text[pos + 1])

\* C8: position on return.  Whenever get_object has returned a value, pos is
\* the index of the value's last character: the closing bracket of a list or
\* dict, the closing quote of a quoted string, or the last character of the
\* unquoted token the value is read from; it is never the end-of-input
\* sentinel, and the caller, when it goes on, has advanced by exactly one.
C8_ReturnPosition ==
    pc = "return" =>
        /\ pos < Len(text)
        /\ LET c     == text[pos + 1]
               token == /\ EndsToken(text, pos)
                        /\ ~ClassifyToken(TokenAt(text, pos)).raised
                        /\ ClassifyToken(TokenAt(text, pos)).val = ret
           IN  CASE ret.kind = "list" -> c = "]"
                 [] ret.kind = "dict" -> c = "}"
                 [] ret.kind = "str"  -> c \in {DQ, SQ} \/ token
                 [] OTHER             -> token
        /\ stack # <<>> =>
              \/ StepOf(cur).pc = "raised" /\ StepOf(cur).pos = pos
              \/ StepOf(cur).pc = "loop" /\ StepOf(cur).pos = pos + 1

\* a nested call has returned the int of a token that the closing bracket
\* of the caller's list follows
C8_NestedTokenReturned ==
    /\ pc = "return"
    /\ stack # <<>>
    /\ ret.kind = "int"
    /\ pos + 1 < Len(text)
    /\ text[pos + 2] = "]"

\* an unquoted token is being read and the character at pos is its last
TokenCompletes ==
    /\ AtLoop
    /\ \/ TopTask = "none"
       \/ TopTask = "building_primitive" /\ stack[Len(stack)].quote_type = "no_quotes"
    /\ EndsToken(text, pos)

\* an unquoted token is being read and the character after pos belongs to it
TokenContinues ==
    /\ AtLoop
    /\ \/ TopTask = "none"
       \/ TopTask = "building_primitive" /\ stack[Len(stack)].quote_type = "no_quotes"
    /\ IsUnquotedChar(CharAt(cur))
    /\ ~EndsToken(text, pos)

\* the token is none of the six literal spellings and no int, and float()
\* makes it a NaN or an infinity
NonFiniteToken(tok) ==
    /\ tok \notin {Str("true"), Str("True"), Str("false"), Str("False"),
                   Str("null"), Str("None")}
    /\ ~ParseInt(tok).ok
    /\ ParseFloat(tok).ok
    /\ IsNanOrInf(ParseFloat(tok).val)

\* the first rule that matches the token: true/True, false/False, null/None,
\* an int when int() accepts it, a float when float() accepts it, else the
\* token's text
FirstMatch(tok) ==
    IF tok \in {Str("true"), Str("True")} THEN PyBool(TRUE)
    ELSE IF tok \in {Str("false"), Str("False")} THEN PyBool(FALSE)
    ELSE IF tok \in {Str("null"), Str("None")} THEN PyNone
    ELSE IF ParseInt(tok).ok THEN PyInt(ParseInt(tok).val)
    ELSE IF ParseFloat(tok).ok THEN ParseFloat(tok).val
    ELSE PyStr(tok)

\* the value of [a, b, true, null, 3, 4.5]
ExampleList ==
    PyList(<<PyStr(Str("a")), PyStr(Str("b")), PyBool(TRUE), PyNone, PyInt(3),
             PyFloat("finite", FALSE, 45, -1)>>)

\* C9 as stated: a token is classified once, when it is complete, and every
\* complete token, a float spelling of NaN or infinity included, returns the
\* value of the first matching rule.
C9_FirstMatchAlways ==
    /\ TokenContinues => StepOf(cur).pc = "loop"
    /\ TokenCompletes =>
          /\ StepOf(cur).pc = "return"
          /\ StepOf(cur).ret = FirstMatch(TokenAt(text, pos))
    /\ (text = Str("[a, b, true, null, 3, 4.5]") /\ Halted) =>
          (pc = "done" /\ final = ExampleList)

\* C9, amended: a token is classified once, when it is complete; a complete
\* token returns the value of the first matching rule, where the float rule
\* gives a float only if it is finite, and a token whose float is NaN or an
\* infinity returns nothing and raises the non-finite-number error.
\* [a, b, true, null, 3, 4.5] gives ["a","b",true,null,3,4.5].
C9_FirstMatchFinite ==
    /\ TokenContinues =>
          /\ StepOf(cur).pc = "loop"
          /\ StepOf(cur).pos = pos + 1
          /\ StepOf(cur).ret = ret
    /\ TokenCompletes =>
          IF NonFiniteToken(TokenAt(text, pos))
          THEN /\ StepOf(cur).pc = "raised"
               /\ StepOf(cur).err = "nan_inf"
          ELSE /\ StepOf(cur).pc = "return"
               /\ StepOf(cur).ret = FirstMatch(TokenAt(text, pos))
    /\ (text = Str("[a, b, true, null, 3, 4.5]") /\ Halted) =>
          (pc = "done" /\ final = ExampleList)

\* the example list has been parsed to its value
C9_ExampleParsed ==
    /\ pc = "done"
    /\ text = Str("[a, b, true, null, 3, 4.5]")
    /\ final = ExampleList

\* no float in the value is a NaN or an infinity
RECURSIVE AllFinite(_)
AllFinite(v) ==
    IF v.kind = "float" THEN ~IsNanOrInf(v)
    ELSE IF v.kind = "list" THEN \A i \in 1..Len(v.val) : AllFinite(v.val[i])
    ELSE IF v.kind = "dict"
    THEN \A i \in 1..Len(v.val) : AllFinite(v.val[i][1]) /\ AllFinite(v.val[i][2])
    ELSE TRUE

\* C10: non-finite numbers.  A complete unquoted token that is no literal
\* and no int and whose float is NaN or an infinity raises the
\* non-finite-number error and the parse fails with it; no value returned,
\* stored or delivered holds a non-finite float.
C10_NonFinite ==
    /\ (TokenCompletes /\ NonFiniteToken(TokenAt(text, pos))) =>
          /\ StepOf(cur).pc = "raised"
          /\ StepOf(cur).err = "nan_inf"
          /\ Run(cur).pc = "failed"
          /\ Run(cur).report.msg = "nan_inf"
    /\ AllFinite(ret)
    /\ AllFinite(final)
    /\ \A i \in 1..Len(stack) :
          /\ stack[i].task = "building_list" => AllFinite(PyList(stack[i].res_builder))
          /\ stack[i].task = "building_dict" => AllFinite(PyDict(stack[i].res_builder))
          /\ AllFinite(stack[i].next_dict_key)

\* the parse of a text whose token is Infinity, nested in a list, has failed
\* with the non-finite-number error
C10_InfinityRejected ==
    /\ pc = "failed"
    /\ report.msg = "nan_inf"
    /\ TokenAt(text, pos) = Str("Infinity")
    /\ text[1] = "["

\* the innermost activation
TopFrame == stack[Len(stack)]

\* the step from the current state is the recursive call at call site c
CallsAt(c) ==
    /\ StepOf(cur).pc = "loop"
    /\ Len(StepOf(cur).stack) = Len(stack) + 1
    /\ StepOf(cur).stack[Len(stack)].call = c
    /\ StepOf(cur).pos = pos

\* every value stored in the dicts of v is a parsed value
RECURSIVE AllValuesSet(_)
AllValuesSet(v) ==
    IF v.kind = "list" THEN \A i \in 1..Len(v.val) : AllValuesSet(v.val[i])
    ELSE IF v.kind = "dict"
    THEN \A i \in 1..Len(v.val) : v.val[i][2] # Unset /\ AllValuesSet(v.val[i][2])
    ELSE TRUE

\* C11: closing a dict.  At '}' a dict activation in stage expecting_key or
\* expecting_comma returns the pairs stored so far; in stage expecting_colon
\* or expecting_value, where the pending key has no value, it raises the
\* missing-value error and the parse fails with it.  A value is parsed only
\* right after a colon, every key of a stored or returned dict has a parsed
\* value, and {} gives the empty dict.
C11_DictClose ==
    /\ (AtLoop /\ TopTask = "building_dict" /\ CharAt(cur) = "}") =>
          IF TopFrame.stage \in {"expecting_key", "expecting_comma"}
          THEN /\ StepOf(cur).pc = "return"
               /\ StepOf(cur).ret = PyDict(TopFrame.res_builder)
               /\ StepOf(cur).pos = pos
               /\ PrevSigChar(text, pos) \in {"{", ","} \/ PairStored(TopFrame)
          ELSE /\ TopFrame.stage \in {"expecting_colon", "expecting_value"}
               /\ ~PairStored(TopFrame)
               /\ StepOf(cur).pc = "raised"
               /\ StepOf(cur).err = "closed_too_early"
               /\ Run(cur).pc = "failed"
               /\ Run(cur).report.msg = "closed_too_early"
    /\ (AtLoop /\ TopTask = "building_dict" /\ CallsAt("value")) =>
          PrevSigChar(text, pos) = ":"
    /\ AllValuesSet(ret)
    /\ AllValuesSet(final)
    /\ \A i \in DictFrames : AllValuesSet(PyDict(stack[i].res_builder))
    /\ (text = Str("{}") /\ Halted) => (pc = "done" /\ final = PyDict(<<>>))

\* the parse has failed at a '}' that follows a key and its colon
C11_ClosedAfterColon ==
    /\ pc = "failed"
    /\ report.msg = "closed_too_early"
    /\ text[pos + 1] = "}"
    /\ PrevSigChar(text, pos) = ":"

\* the number of occurrences of c in s
CountOf(c, s) == Cardinality({i \in 1..Len(s) : s[i] = c})

\* the innermost activation is reading a quoted string
InQuoted ==
    /\ AtLoop
    /\ TopTask = "building_primitive"
    /\ TopFrame.quote_type \in {"double_quotes", "single_quotes"}

\* s without its leading spaces and tabs
RECURSIVE StripBlanks(_)
StripBlanks(s) ==
    IF s # <<>> /\ Head(s) \in {" ", TAB} THEN StripBlanks(Tail(s)) ELSE s

\* the text a raw content stands for when each line break is one newline,
\* the spaces and tabs after it are dropped, and the pieces between the
\* line breaks decode as they do alone; ok is FALSE if a piece does not decode
RECURSIVE DecodeLines(_)
DecodeLines(raw) ==
    LET i == FirstIn(raw, {NL}, 1)
    IN  IF i = 0
        THEN LET d == LiteralEval(raw)
             IN  [ok |-> d.ok, val |-> IF d.ok THEN d.val.val ELSE <<>>]
        ELSE LET d == LiteralEval(Take(raw, i - 1))
                 r == DecodeLines(StripBlanks(Drop(raw, i)))
             IN  IF d.ok /\ r.ok THEN [ok |-> TRUE, val |-> d.val.val \o <<NL>> \o r.val]
                 ELSE [ok |-> FALSE, val |-> <<>>]

RECURSIVE AllKeysStr(_)
AllKeysStr(v) ==
    IF v.kind = "list" THEN \A i \in 1..Len(v.val) : AllKeysStr(v.val[i])
    ELSE IF v.kind = "dict"
    THEN \A i \in 1..Len(v.val) : v.val[i][1].kind = "str" /\ AllKeysStr(v.val[i][2])
    ELSE TRUE

\* <<key token, key text>>: the coercions the documentation names
KeySpellings ==
    {<<Str("1"), Str("1")>>, <<Str("true"), Str("true")>>, <<Str("True"), Str("true")>>,
     <<Str("false"), Str("false")>>, <<Str("False"), Str("false")>>,
     <<Str("null"), Str("null")>>, <<Str("None"), Str("null")>>}

\* the text is {tok:1} for an unquoted token tok
IsOneKeyText ==
    /\ Len(text) >= 5
    /\ text[1] = "{"
    /\ SubSeq(text, Len(text) - 2, Len(text)) = Str(":1}")
    /\ \A i \in 2..(Len(text) - 3) : IsUnquotedChar(text[i])

\* C13: key coercion.  A parse that succeeds delivers only dicts whose keys
\* are strings; the key of {tok:1} is the token's text when the token is a
\* string and the canonical JSON text of its value when it is an int, a
\* float, a boolean or null: 1 gives "1", true/True "true", false/False
\* "false", null/None "null".
C13_KeyCoercion ==
    /\ pc = "done" => AllKeysStr(final)
    /\ (pc = "done" /\ IsOneKeyText) =>
          LET tok == SubSeq(text, 2, Len(text) - 3)
              v   == FirstMatch(tok)
              key == IF v.kind = "str" THEN v ELSE PyStr(JsonDumps(v, TRUE))
          IN  final = PyDict(<<<<key, PyInt(1)>>>>)
    /\ \A p \in KeySpellings :
          (text = Str("{") \o p[1] \o Str(":1}") /\ Halted) =>
              (pc = "done" /\ final = PyDict(<<<<PyStr(p[2]), PyInt(1)>>>>))

\* {None:1} has been parsed to a dict with the key "null"
C13_NoneKeyDelivered ==
    /\ pc = "done"
    /\ text = Str("{None:1}")
    /\ final = PyDict(<<<<PyStr(Str("null")), PyInt(1)>>>>)

\* the number of consecutive backslashes of t that end at 1-based index p
RECURSIVE BackslashRun(_, _)
BackslashRun(t, p) ==
    IF p >= 1 /\ t[p] = BSL THEN 1 + BackslashRun(t, p - 1) ELSE 0

\* the delimiter of the string the innermost activation is reading
LimitingQuote == IF TopFrame.quote_type = "double_quotes" THEN DQ ELSE SQ

\* C14: string termination.  While a quoted string opened with d is read,
\* the content so far is the text after the opening d, no d in it follows
\* an even number of backslashes, and the escape flag is true exactly when
\* an odd number of consecutive backslashes ends at the previous character.
\* The string ends at the current character exactly when it is d and that
\* number is even; otherwise the character, the other quote and an escaped
\* d included, is added to the content.
C14_StringTermination ==
    InQuoted =>
        LET raw   == TopFrame.res_builder
            open  == pos - Len(raw)
            run   == BackslashRun(text, pos)
            step  == StepOf(cur)
        IN  /\ open >= 1
            /\ text[open] = LimitingQuote
            /\ raw = SubSeq(text, open + 1, pos)
            /\ \A i \in (open + 1)..pos :
                  text[i] = LimitingQuote => BackslashRun(text, i - 1) % 2 = 1
            /\ TopFrame.string_escape = (run % 2 = 1)
            /\ IF CharAt(cur) = LimitingQuote /\ run % 2 = 0
               THEN /\ step.pc \in {"return", "raised"}
                    /\ step.pos = pos
                    /\ step.pc = "return" => step.ret.kind = "str"
                    /\ step.pc = "raised" => step.err = "literal_eval"
               ELSE /\ step.pc = "loop"
                    /\ step.pos = pos + 1
                    /\ step.stack[Len(stack)].res_builder = Append(raw, CharAt(cur))

\* a string whose content is two backslashes and the other quote has ended
\* at the quote after them
C14_EndedAfterTwoBackslashes ==
    /\ pc = "done"
    /\ text = <<SQ, BSL, BSL, DQ, SQ>>
    /\ pos = 4
    /\ final = PyStr(<<BSL, DQ>>)

\* one step as seen by the dict activation at depth i, which is still there
\* after it: its stage moves only along the cycle, each move by its cause,
\* its pending key changes only when a key has been parsed, and its pairs
\* change only by the pair of the pending key and the value just parsed
DictStepInOrder(i) ==
    LET f == stack[i]
        g == stack'[i]
    IN  /\ g.task = "building_dict"
        /\ f.stage # g.stage =>
              /\ i = Len(stack)
              /\ \/ /\ f.stage = "expecting_key" /\ g.stage = "expecting_colon"
                    /\ pc = "return" /\ f.call = "key"
                    /\ KeyText(g.next_dict_key) = KeyText(ret)
                 \/ /\ f.stage = "expecting_colon" /\ g.stage = "expecting_value"
                    /\ pc = "loop" /\ text[pos + 1] = ":"
                 \/ /\ f.stage = "expecting_value" /\ g.stage = "expecting_comma"
                    /\ pc = "return" /\ f.call = "value"
                    /\ g.res_builder = Append(f.res_builder, <<f.next_dict_key, ret>>)
                 \/ /\ f.stage = "expecting_comma" /\ g.stage = "expecting_key"
                    /\ pc = "loop" /\ text[pos + 1] = ","
        /\ f.next_dict_key # g.next_dict_key =>
              (f.stage = "expecting_key" /\ g.stage = "expecting_colon")
        /\ f.res_builder # g.res_builder =>
              (f.stage = "expecting_value" /\ g.stage = "expecting_comma")

\* C15: stage order of a dict.  A dict starts in stage expecting_key with no
\* pairs; its stage changes only along expecting_key -> expecting_colon ->
\* expecting_value -> expecting_comma -> expecting_key, by a parsed key, a
\* ':', a parsed value and a ',' respectively; a pair is stored only on the
\* step from expecting_value to expecting_comma, under the key parsed in the
\* same cycle; and in expecting_colon every character that is not
\* whitespace, ':' or '}' raises the expected-colon error.
C15_StageOrder ==
    [][/\ \A i \in 1..Len(stack) :
              (i <= Len(stack') /\ stack[i].task = "building_dict") => DictStepInOrder(i)
       /\ (AtLoop /\ TopTask = "none" /\ Len(stack') = Len(stack)
                  /\ stack'[Len(stack)].task = "building_dict") =>
              /\ text[pos + 1] = "{"
              /\ stack'[Len(stack)].stage = "expecting_key"
              /\ stack'[Len(stack)].res_builder = <<>>
       /\ (/\ AtLoop
           /\ TopTask = "building_dict"
           /\ TopFrame.stage = "expecting_colon"
           /\ ~IsSpace(CharAt(cur))
           /\ CharAt(cur) \notin {":", "}"}) =>
              (pc' = "raised" /\ err' = "expected_colon")
      ]_vars

\* a dict that has stored a pair is, after the comma, expecting a key again
C15_CycleCompleted ==
    \E i \in DictFrames :
        /\ stack[i].stage = "expecting_key"
        /\ Len(stack[i].res_builder) >= 1
        /\ PrevSigChar(text, pos) = ","

\* the step from the current state calls the lookahead of lines 221-223
ReadsNext ==
    /\ AtLoop
    /\ IsUnquotedChar(CharAt(cur))
    /\ \/ TopTask = "none"
       \/ TopTask = "building_primitive" /\ TopFrame.quote_type = "no_quotes"

\* the text with every character but chars[pos], and chars[pos+1] when the
\* lookahead is called, replaced by c
Masked(c) ==
    [i \in 1..Len(text) |->
        IF i = pos + 1 \/ (i = pos + 2 /\ ReadsNext) THEN text[i] ELSE c]

\* C16: single pass.  pos never decreases and no step moves it by more than
\* one; a loop iteration that neither returns, raises nor calls moves it by
\* exactly one; a recursive call starts with a fresh activation at the pos
\* of its caller, a return or raise leaves pos where it is, and the caller
\* resumes at the callee's final pos and ends its iteration one further.
\* The step taken depends on no character but chars[pos] and, when an
\* unquoted token is read, chars[pos+1].
C16_SinglePass ==
    [][/\ text' = text
       /\ pos' \in {pos, pos + 1}
       /\ (pc = "loop" /\ pc' = "loop" /\ Len(stack') = Len(stack)) => pos' = pos + 1
       /\ (pc = "loop" /\ Len(stack') = Len(stack) + 1) =>
             /\ pos' = pos
             /\ pc' = "loop"
             /\ stack'[Len(stack')] = NewFrame
       /\ pc' \in {"return", "raised", "done", "failed"} => pos' = pos
       /\ (pc = "return" /\ stack # <<>>) =>
             \/ pc' = "loop" /\ pos' = pos + 1 /\ Len(stack') = Len(stack)
             \/ pc' = "raised" /\ pos' = pos
       /\ \A c \in {"a", "]", SQ} :
             [StepOf([cur EXCEPT !.text = Masked(c)]) EXCEPT !.text = text] = StepOf(cur)
      ]_vars

\* the caller of a token's parse has resumed one past the token's last
\* character
C16_CallerResumed ==
    /\ AtLoop
    /\ TopTask = "building_list"
    /\ TopFrame.expecting_comma
    /\ Len(TopFrame.res_builder) = 1
    /\ pos >= 2
    /\ IsUnquotedChar(text[pos])

\* the number of '[' and '{' among the first p characters of t
Brackets(t, p) == Cardinality({i \in 1..p : t[i] \in {"[", "{"}})

\* every activation but the innermost is a list or a dict waiting for the
\* call it made, and there is at most one activation more than there are
\* opening brackets before pos
DepthBounded ==
    /\ \A i \in 1..(Len(stack) - 1) :
          /\ stack[i].task \in {"building_list", "building_dict"}
          /\ stack[i].call \in {"list", "key", "value"}
    /\ Len(stack) <= 1 + Brackets(text, pos)

\* C17: termination.  Every parse eventually returns a value or raises its
\* error; an activation makes a recursive call only after it has consumed
\* its own '[' or '{', so the recursion depth never exceeds one plus the
\* number of opening brackets consumed.
C17_Termination == []DepthBounded /\ <>Halted

\* the parse of three nested opening brackets has ended with the
\* end-of-input error
C17_NestedParseEnded ==
    /\ pc = "failed"
    /\ report.msg = "eof"
    /\ Len(text) = 3
    /\ Brackets(text, 3) = 3

-----------------------------------------------------------------------------
\* the exceptions of the branches that signal a defect of the parser:
\* lines 161-162, 200-201, 208-209, 210-211 and 215
InternalDefects ==
    {"undefined_stage", "unquoted_unreachable", "undefined_quotation",
     "undefined_task", "loop_exit"}

\* the fields that select a branch hold one of the values the code assigns
FrameWellFormed(f) ==
    /\ f.task \in {"none", "building_list", "building_dict", "building_primitive"}
    /\ f.task = "building_primitive" =>
          f.quote_type \in {"double_quotes", "single_quotes", "no_quotes"}
    /\ f.task = "building_dict" =>
          f.stage \in {"expecting_key", "expecting_colon", "expecting_value",
                       "expecting_comma"}

\* C18: the internal-defect branches are unreachable.  In every state no
\* defect exception has been raised or reported, the step the program takes
\* next is none of the undefined branches and raises no defect exception, an
\* activation building an unquoted token stands at a character of the
\* unquoted set, and every activation's task, quotation and stage are values
\* the code assigns.
C18_NoInternalDefect ==
    /\ err \notin InternalDefects
    /\ report.msg \notin InternalDefects
    /\ Branch(cur) # "undefined"
    /\ StepOf(cur).err \notin InternalDefects
    /\ \A i \in 1..Len(stack) : FrameWellFormed(stack[i])
    /\ Branch(cur) = "building_unquoted" => IsUnquotedChar(text[pos + 1])
    /\ pc = "loop" => pos < Len(Chars(text))

\* an unquoted key inside a dict is being continued: the checks of lines 200
\* and 208-211 have just been passed
C18_UnquotedContinued ==
    /\ Branch(cur) = "building_unquoted"
    /\ Len(stack) = 2
    /\ stack[1].task = "building_dict"
    /\ stack[1].stage = "expecting_key"
    /\ Len(TopFrame.res_builder) = 1

-----------------------------------------------------------------------------
\* texts put after the part of the input that was read
Suffixes ==
    {Str(""), Str("a"), Str("1"), Str("]"), Str("}"), Str("'"), Str(":"),
     Str(",1"), Str(" x"), Str("\n["), Str("\\"), Str("[1")}

\* what parse_loosely_defined_json gives for a text: the value, or the report
Outcome(s) == [pc |-> s.pc, final |-> s.final, report |-> s.report]

\* the characters that close a quoted string, a list or a dict
Closers == {SQ, DQ, "]", "}"}

\* C19: trailing text is never examined.  When the parse has ended with a
\* value whose last character, at index pos, is a closing quote or bracket,
\* the text up to pos followed by any suffix parses to the same value; when it
\* has ended at an unquoted token, or has failed before the end of the input,
\* every text that agrees with it up to the character after pos has the same
\* outcome (value, or line, column, character and message of the error).
C19_TrailingTextUnread ==
    /\ (pc = "done" /\ text[pos + 1] \in Closers) =>
          \A S \in Suffixes :
              LET r == Parse(SubSeq(text, 1, pos + 1) \o S)
              IN  r.pc = "done" /\ r.final = final
    /\ (pc = "done" /\ text[pos + 1] \notin Closers) =>
          /\ IsUnquotedChar(text[pos + 1])
          /\ pos + 2 <= Len(text) =>
                \A S \in Suffixes :
                    Outcome(Parse(SubSeq(text, 1, pos + 2) \o S)) = Outcome(cur)
    /\ (pc = "failed" /\ pos + 2 <= Len(text)) =>
          \A S \in Suffixes :
              Outcome(Parse(SubSeq(text, 1, pos + 2) \o S)) = Outcome(cur)

\* a list was returned although a character that cannot continue it follows
C19_ValueBeforeTrailingText ==
    /\ pc = "done"
    /\ final.kind = "list"
    /\ pos + 1 < Len(text)
    /\ text[pos + 1] = "]"
    /\ text[pos + 2] \in {"]", "}", ":", ","}

-----------------------------------------------------------------------------
\* the step from the current state reads chars[pos+1] (line 221)
CallsLookahead ==
    /\ Branch(cur) \in {"look_for_start", "building_unquoted"}
    /\ IsUnquotedChar(CharAt(cur))

\* C20: index bounds.  In every state 0 <= pos <= len(text), the index of the
\* sentinel; a step that calls the lookahead stands at a character that is
\* not the sentinel, so pos + 1 <= len(text) and the read of chars[pos+1]
\* raises no IndexError; the loop reads chars[pos] within the list, and reads
\* the sentinel exactly at pos = len(text); and after any raise chars[pos]
\* exists, so the wrapper reports a character of the text or the sentinel.
C20_IndexBounds ==
    /\ pos \in 0..Len(text)
    /\ pc = "loop" =>
          /\ pos < Len(Chars(text))
          /\ pos = Len(text) <=> CharAt(cur) = EOF
    /\ CallsLookahead =>
          /\ CharAt(cur) # EOF
          /\ pos + 1 <= Len(text)
          /\ StepOf(cur).err # "index_error"
    /\ err # "index_error"
    /\ pc \in {"raised", "failed"} => pos < Len(Chars(text))
    /\ pc = "failed" =>
          /\ report.msg # "index_error"
          /\ report.char # "IndexError"
          /\ report.char = Chars(text)[pos + 1]

\* the lookahead has read the sentinel (the token ends the text) and the
\* parse has then failed at the sentinel itself
C20_FailedAtSentinel ==
    /\ pc = "failed"
    /\ Len(text) = 3
    /\ pos = Len(text)
    /\ report.char = EOF
    /\ text[1] = "["
    /\ IsUnquotedChar(text[2]) /\ IsUnquotedChar(text[3])

====
